---- MODULE Spec2Model ----
(***************************************************************************)
(* A model of the To-Do List Manager of src/main.py: the Task entity, the  *)
(* JSON persistence (save_tasks / load_tasks), the user operations of      *)
(* TodoApp (add, edit, delete, toggle) and the timer-driven reminder sweep *)
(* (check_overdue_and_notifications).                                      *)
(*                                                                         *)
(* The application is single-threaded, but every modal dialog (TaskDialog, *)
(* QMessageBox) runs a nested Qt event loop inside exec_(): the handler    *)
(* that opened it is suspended, while the 60 s QTimer keeps delivering     *)
(* timeout events to that nested loop.  The suspended handlers are the     *)
(* variable stack; a handler resumes only when its dialog is the topmost   *)
(* one and is dismissed.                                                   *)
(*                                                                         *)
(* Time is counted in minutes since 00:00 of day 0.                        *)
(***************************************************************************)
EXTENDS Integers, Sequences, FiniteSets, TLC

\* ------------------------------------------------------------- bounds
\* User handlers (add, edit, delete, toggle) begun in one run.
MaxOps == 2
\* save_tasks calls the environment fails in one run.
MaxFailures == 1
\* Nested modal dialogs (suspended handlers) at one time.
MaxDepth == 2
\* Records of a backing file read by load_tasks in the loading specification.
MaxFileLen == 2
\* How many tasks the collections of the task-list specification hold at most.
MaxListLen == 3
\* How many tasks the collections of the round-trip specification hold at most.
MaxRoundLen == 2

\* ---------------------------------------------------------- constants
\* Python's None for an absent date or time.
None == -1
\* Minutes of a day: datetime.combine(date, time).
MinutesPerDay == 1440
\* time(23, 59), the end-of-day default of get_deadline_datetime.
EndOfDay == 1439
\* 'notify_before_minutes' default of Task.__init__ and Task.from_dict.
DefaultBefore == 30
\* Microseconds in a second: the unit of the sub-minute part of a time of day.
MicrosPerSecond == 1000000

\* JSON null, and a JSON number found where a text is expected.  A JSON string
\* is a sequence of one-character strings, so neither is mistaken for one.
JNull == <<"null">>
JNumber == <<"number">>

VARIABLES
    tasks,        \* self.tasks: the sequence of Task objects
    file,         \* tasks.json: [kind: "missing" | "doc" | "corrupt", recs]
    now,          \* datetime.now(), in minutes
    timerOn,      \* self.timer started (the end of TodoApp.__init__)
    timerDue,     \* at least one timer interval elapsed since the last timeout
    stack,        \* handlers suspended in a modal dialog, innermost last
    created,      \* how many Task objects were constructed so far
    ops,          \* how many user handlers were begun so far
    failures,     \* how many save_tasks calls failed so far
    windowTitle,  \* the overdue count shown by setWindowTitle (0: plain title)
    emitted,      \* per Task id: how many reminder dialogs were opened for it
    loadError,    \* load_tasks showed its "Failed to load tasks" alert
    lastSave,     \* outcome of the latest save_tasks call: "none" before any
    probe,        \* pure-function specifications: the value examined
    verdict,      \* pure-function specification: what should_notify answered
    filter_text,  \* self.filter_combo.currentText()
    task_list     \* self.task_list: per item, the id of the task it shows

vars == <<tasks, file, now, timerOn, timerDue, stack, created, ops, failures,
          windowTitle, emitted,
          loadError, lastSave, probe, verdict, filter_text, task_list>>

\* ------------------------------------------------------ small helpers
RECURSIVE lstrip(_)
lstrip(s) == IF s # <<>> /\ Head(s) = " " THEN lstrip(Tail(s)) ELSE s

RECURSIVE rstrip(_)
rstrip(s) ==
    IF s # <<>> /\ s[Len(s)] = " " THEN rstrip(SubSeq(s, 1, Len(s) - 1)) ELSE s

\* str.strip() on a string held as a sequence of characters.
strip(s) == rstrip(lstrip(s))

\* ------------------------------------------------------- Task entity
\* A mutant of get_deadline_datetime: a date without a time means 00:00.
get_deadline_datetime_Midnight(t) ==
    IF t.deadline # None /\ t.deadline_time # None
    THEN t.deadline * MinutesPerDay + t.deadline_time
    ELSE IF t.deadline # None
         THEN t.deadline * MinutesPerDay
         ELSE None

\* Task.get_deadline_datetime: None, or the minute of the deadline.  (The
\* clock of the model has whole minutes; the form inputs and the boot files
\* carry whole-minute times, for which the minute is the whole datetime.)
get_deadline_datetime(t) ==
    IF t.deadline # None /\ t.deadline_time # None
    THEN t.deadline * MinutesPerDay + t.deadline_time
    ELSE IF t.deadline # None
         THEN t.deadline * MinutesPerDay + EndOfDay
         ELSE None

\* Task.is_overdue
is_overdue(t, nw) ==
    LET deadline_dt == get_deadline_datetime(t)
    IN IF deadline_dt # None /\ ~t.completed THEN nw > deadline_dt ELSE FALSE

\* A mutant of should_notify: fires only at the notification instant itself.
should_notify_OnlyAtInstant(t, nw) ==
    IF ~t.notify_enabled \/ t.completed \/ t.notified
    THEN FALSE
    ELSE LET deadline_dt == get_deadline_datetime(t)
         IN IF deadline_dt = None
            THEN FALSE
            ELSE nw = deadline_dt - t.notify_before_minutes

\* A mutant of should_notify: no reminder once the deadline itself is reached.
should_notify_NotWhenOverdue(t, nw) ==
    IF ~t.notify_enabled \/ t.completed \/ t.notified
    THEN FALSE
    ELSE LET deadline_dt == get_deadline_datetime(t)
         IN IF deadline_dt = None
            THEN FALSE
            ELSE LET notification_time == deadline_dt - t.notify_before_minutes
                 IN nw >= notification_time /\ nw < deadline_dt

\* Task.should_notify
should_notify(t, nw) ==
    IF ~t.notify_enabled \/ t.completed \/ t.notified
    THEN FALSE
    ELSE LET deadline_dt == get_deadline_datetime(t)
         IN IF deadline_dt = None
            THEN FALSE
            ELSE LET notification_time == deadline_dt - t.notify_before_minutes
                 IN nw >= notification_time

\* ------------------------------------------------- ISO-8601 texts
\* Texts are sequences of one-character strings.  Dates are day numbers of
\* June 2025 (day 0 is 2025-06-01).  A time of day is held as two numbers:
\* the minutes since 00:00 (deadline_time) and the seconds and microseconds
\* within that minute, in microseconds (deadline_time_us).
Digits == <<"0", "1", "2", "3", "4", "5", "6", "7", "8", "9">>

TwoDigits(n) == <<Digits[(n \div 10) + 1], Digits[(n % 10) + 1]>>

DigitVal(c) == IF \E k \in 1..10 : Digits[k] = c
               THEN (CHOOSE k \in 1..10 : Digits[k] = c) - 1
               ELSE None

\* The number written by the two characters of s at i and i+1, or None.
ParseTwo(s, i) ==
    IF DigitVal(s[i]) # None /\ DigitVal(s[i + 1]) # None
    THEN 10 * DigitVal(s[i]) + DigitVal(s[i + 1])
    ELSE None

YearMonth == <<"2", "0", "2", "5", "-", "0", "6", "-">>

\* date.isoformat(): "YYYY-MM-DD"
date_isoformat(d) == YearMonth \o TwoDigits(d + 1)

\* The six digits of a microsecond count.
SixDigits(n) ==
    TwoDigits(n \div 10000) \o TwoDigits((n \div 100) % 100) \o TwoDigits(n % 100)

\* time.isoformat() of the time of day with minutes t and sub-minute part us:
\* "HH:MM:SS", and "HH:MM:SS.ffffff" when the microsecond is not 0.
time_isoformat_us(t, us) ==
    TwoDigits(t \div 60) \o <<":">> \o TwoDigits(t % 60) \o <<":">>
        \o TwoDigits(us \div MicrosPerSecond)
        \o (IF us % MicrosPerSecond # 0
            THEN <<".">> \o SixDigits(us % MicrosPerSecond)
            ELSE <<>>)

\* time.isoformat() of a whole-minute time: "HH:MM:00"
time_isoformat(t) == time_isoformat_us(t, 0)

\* datetime.isoformat(): "YYYY-MM-DDTHH:MM:SS"
datetime_isoformat(dt) ==
    date_isoformat(dt \div MinutesPerDay) \o <<"T">>
        \o time_isoformat(dt % MinutesPerDay)

\* The date written by the first 10 characters of s, or None.
ParseDate(s) ==
    IF Len(s) >= 10 /\ SubSeq(s, 1, 8) = YearMonth /\ ParseTwo(s, 9) # None
       /\ ParseTwo(s, 9) \in 1..30
    THEN ParseTwo(s, 9) - 1
    ELSE None

\* The time of day written by the 8 characters of s from position i, or None.
ParseTime(s, i) ==
    IF Len(s) >= i + 7 /\ s[i + 2] = ":" /\ s[i + 5] = ":"
       /\ ParseTwo(s, i) # None /\ ParseTwo(s, i + 3) # None
       /\ ParseTwo(s, i + 6) # None
       /\ ParseTwo(s, i) <= 23 /\ ParseTwo(s, i + 3) <= 59
       /\ ParseTwo(s, i + 6) <= 59
    THEN 60 * ParseTwo(s, i) + ParseTwo(s, i + 3)
    ELSE None

\* The seconds of the time ParseTime accepts at position i, in microseconds.
ParseSeconds(s, i) == ParseTwo(s, i + 6) * MicrosPerSecond

\* The microseconds written as ".ffffff" by the 7 characters of s from
\* position i, or None.
ParseMicros(s, i) ==
    IF Len(s) >= i + 6 /\ s[i] = "." /\ ParseTwo(s, i + 1) # None
       /\ ParseTwo(s, i + 3) # None /\ ParseTwo(s, i + 5) # None
    THEN 10000 * ParseTwo(s, i + 1) + 100 * ParseTwo(s, i + 3)
             + ParseTwo(s, i + 5)
    ELSE None

\* datetime.strptime(s, '%H:%M:%S').time(): the text must be a time and
\* nothing else (a fraction of a second is "unconverted data").
\* [ok |-> FALSE] stands for ValueError.
strptime_HMS(s) ==
    IF Len(s) = 8 /\ ParseTime(s, 1) # None
    THEN [ok |-> TRUE, time |-> ParseTime(s, 1), us |-> ParseSeconds(s, 1)]
    ELSE [ok |-> FALSE]

\* datetime.fromisoformat(s): a date, or a date, a separator and a time with
\* or without microseconds; a time without a date is refused.  date is the
\* .date() of the result, time and us its .time().
datetime_fromisoformat(s) ==
    IF Len(s) = 10 /\ ParseDate(s) # None
    THEN [ok |-> TRUE, date |-> ParseDate(s), time |-> 0, us |-> 0]
    ELSE IF Len(s) = 19 /\ ParseDate(s) # None /\ ParseTime(s, 12) # None
         THEN [ok |-> TRUE, date |-> ParseDate(s), time |-> ParseTime(s, 12),
               us |-> ParseSeconds(s, 12)]
         ELSE IF Len(s) = 26 /\ ParseDate(s) # None /\ ParseTime(s, 12) # None
                 /\ ParseMicros(s, 20) # None
              THEN [ok |-> TRUE, date |-> ParseDate(s),
                    time |-> ParseTime(s, 12),
                    us |-> ParseSeconds(s, 12) + ParseMicros(s, 20)]
              ELSE [ok |-> FALSE]

\* ------------------------------------------------------ persistence
\* dict.get(key, default)
Get(data, key, default) == IF key \in DOMAIN data THEN data[key] ELSE default

\* A record of the JSON array that is not an object (a number, a string).
NotADict == [nondict |-> TRUE]
IsDict(data) == "nondict" \notin DOMAIN data

\* Python truthiness of a JSON value read where a text is expected.
Truthy(v) == v # JNull /\ v # <<>>
IsStr(v) == v # JNull /\ v # JNumber

\* Task.to_dict
to_dict(t) ==
    [title |-> t.title,
     description |-> t.description,
     priority |-> t.priority,
     deadline |-> IF t.deadline # None THEN date_isoformat(t.deadline) ELSE JNull,
     deadline_time |-> IF t.deadline_time # None
                       THEN time_isoformat_us(t.deadline_time,
                                              t.deadline_time_us)
                       ELSE JNull,
     notify_enabled |-> t.notify_enabled,
     notify_before_minutes |-> t.notify_before_minutes,
     completed |-> t.completed,
     created_at |-> t.created_at,
     notified |-> t.notified]

\* Whether Task.from_dict raises on this record: data.get on a non-object,
\* fromisoformat on a deadline that is no text or no date, strptime on a
\* deadline_time that is no text (only ValueError is caught there).
from_dict_raises(data) ==
    \/ ~IsDict(data)
    \/ /\ Truthy(Get(data, "deadline", JNull))
       /\ \/ ~IsStr(data.deadline)
          \/ ~datetime_fromisoformat(data.deadline).ok
    \/ /\ Truthy(Get(data, "deadline_time", JNull))
       /\ ~IsStr(data.deadline_time)

\* The deadline_time of Task.from_dict: the bare time format first, then a
\* full timestamp, then None.
from_dict_time(deadline_time_str) ==
    IF Truthy(deadline_time_str)
    THEN IF strptime_HMS(deadline_time_str).ok
         THEN strptime_HMS(deadline_time_str).time
         ELSE IF datetime_fromisoformat(deadline_time_str).ok
              THEN datetime_fromisoformat(deadline_time_str).time
              ELSE None
    ELSE None

\* The sub-minute part of that deadline_time (0 where it is None).
from_dict_time_us(deadline_time_str) ==
    IF Truthy(deadline_time_str)
    THEN IF strptime_HMS(deadline_time_str).ok
         THEN strptime_HMS(deadline_time_str).us
         ELSE IF datetime_fromisoformat(deadline_time_str).ok
              THEN datetime_fromisoformat(deadline_time_str).us
              ELSE 0
    ELSE 0

\* Task.from_dict on a record it does not raise on; id is the identity of the
\* new object and nw the time of the call.
from_dict(data, id, nw) ==
    [id |-> id,
     title |-> Get(data, "title", <<>>),
     description |-> Get(data, "description", <<>>),
     priority |-> Get(data, "priority", "Medium"),
     deadline |-> IF Truthy(Get(data, "deadline", JNull))
                  THEN datetime_fromisoformat(data.deadline).date
                  ELSE None,
     deadline_time |-> from_dict_time(Get(data, "deadline_time", JNull)),
     deadline_time_us |-> from_dict_time_us(Get(data, "deadline_time", JNull)),
     notify_enabled |-> Get(data, "notify_enabled", FALSE),
     notify_before_minutes |-> Get(data, "notify_before_minutes", DefaultBefore),
     completed |-> Get(data, "completed", FALSE),
     created_at |-> Get(data, "created_at", datetime_isoformat(nw)),
     notified |-> Get(data, "notified", FALSE)]

\* The backing file: absent, a JSON array of records, a JSON value that is no
\* array (a number), or text that is no JSON.
MissingFile == [kind |-> "missing", recs |-> <<>>]
CorruptFile == [kind |-> "corrupt", recs |-> <<>>]
ScalarFile == [kind |-> "scalar", recs |-> <<>>]
DocFile(recs) == [kind |-> "doc", recs |-> recs]

\* The JSON document save_tasks writes for a task list.
Serialise(ts) == DocFile([i \in 1..Len(ts) |-> to_dict(ts[i])])

\* A mutant of load_tasks: keeps the records decoded before the failing one.
load_tasks_KeepsPrefix(f, nw) ==
    IF f.kind = "missing"
    THEN [tasks |-> <<>>, error |-> FALSE]
    ELSE IF f.kind \in {"corrupt", "scalar"}
         THEN [tasks |-> <<>>, error |-> TRUE]
         ELSE LET bad == {i \in 1..Len(f.recs) : from_dict_raises(f.recs[i])}
                  n == IF bad = {} THEN Len(f.recs)
                       ELSE (CHOOSE i \in bad : \A j \in bad : i <= j) - 1
              IN [tasks |-> [i \in 1..n |-> from_dict(f.recs[i], i, nw)],
                  error |-> bad # {}]

\* TodoApp.load_tasks, from self.tasks = []: the loaded list and whether the
\* "Failed to load tasks" alert was shown.
load_tasks(f, nw) ==
    IF f.kind = "missing"
    THEN [tasks |-> <<>>, error |-> FALSE]
    ELSE IF f.kind \in {"corrupt", "scalar"}
         THEN [tasks |-> <<>>, error |-> TRUE]
         ELSE IF \E i \in 1..Len(f.recs) : from_dict_raises(f.recs[i])
              THEN [tasks |-> <<>>, error |-> TRUE]
              ELSE [tasks |-> [i \in 1..Len(f.recs) |->
                                  from_dict(f.recs[i], i, nw)],
                    error |-> FALSE]

\* What the environment can do to a save_tasks call: let it through, fail the
\* open (the file keeps its content), or fail a write after open(..., 'w')
\* truncated the file (a strict prefix of a JSON array is no JSON).
SaveOutcomes == {"ok", "open_failed", "write_failed"}

\* The backing file after save_tasks on task list ts with outcome o.
save_tasks(ts, f, o) ==
    CASE o = "ok" -> Serialise(ts)
      [] o = "open_failed" -> f
      [] o = "write_failed" -> CorruptFile

\* ------------------------------------------------------- the form
\* Task.__init__ on the data of a form; id is the identity of the new object.
NewTask(id, data, nw) ==
    [id |-> id,
     title |-> data.title,
     description |-> data.description,
     priority |-> data.priority,
     deadline |-> data.deadline,
     deadline_time |-> data.deadline_time,
     deadline_time_us |-> data.deadline_time_us,
     notify_enabled |-> data.notify_enabled,
     notify_before_minutes |-> data.notify_before_minutes,
     completed |-> FALSE,
     created_at |-> datetime_isoformat(nw),
     notified |-> FALSE]

\* What the user may have typed into a TaskDialog when pressing OK.
FormInputs ==
    { [title |-> <<" ", "a">>, description |-> <<"d", " ">>, priority |-> "High",
       deadline |-> 0, deadline_time |-> 30, deadline_time_us |-> 0,
       notify_enabled |-> TRUE, notify_before_minutes |-> 5],
      [title |-> <<"b">>, description |-> <<>>, priority |-> "Low",
       deadline |-> 1, deadline_time |-> 0, deadline_time_us |-> 0,
       notify_enabled |-> FALSE, notify_before_minutes |-> 30],
      [title |-> <<" ">>, description |-> <<>>, priority |-> "Medium",
       deadline |-> 1, deadline_time |-> 0, deadline_time_us |-> 0,
       notify_enabled |-> FALSE, notify_before_minutes |-> 30],
      [title |-> <<>>, description |-> <<"d">>, priority |-> "High",
       deadline |-> 0, deadline_time |-> 30, deadline_time_us |-> 0,
       notify_enabled |-> TRUE, notify_before_minutes |-> 5] }

\* A mutant of get_task_data: a deadline equal to the current time passes.
get_task_data_AllowsNow(inp, nw) ==
    LET title == strip(inp.title)
        deadline_datetime == inp.deadline * MinutesPerDay + inp.deadline_time
    IN IF title = <<>> \/ deadline_datetime < nw
       THEN [ok |-> FALSE]
       ELSE [ok |-> TRUE,
             data |-> [inp EXCEPT !.title = title,
                                  !.description = strip(inp.description)]]

\* TaskDialog.get_task_data: [ok |-> FALSE] is the None it returns after its
\* warning, otherwise data is the dictionary it returns.
get_task_data(inp, nw) ==
    LET title == strip(inp.title)
        deadline_datetime == inp.deadline * MinutesPerDay + inp.deadline_time
    IN IF title = <<>>
       THEN [ok |-> FALSE]
       ELSE IF deadline_datetime <= nw
            THEN [ok |-> FALSE]
            ELSE [ok |-> TRUE,
                  data |-> [inp EXCEPT !.title = title,
                                       !.description = strip(inp.description)]]

\* A mutant of the field assignments of edit_task: the edit re-arms the latch.
ApplyEdit_Rearms(t, data) ==
    [t EXCEPT !.title = data.title,
              !.description = data.description,
              !.priority = data.priority,
              !.deadline = data.deadline,
              !.deadline_time = data.deadline_time,
              !.deadline_time_us = data.deadline_time_us,
              !.notify_enabled = data.notify_enabled,
              !.notify_before_minutes = data.notify_before_minutes,
              !.notified = FALSE]

\* The seven field assignments of edit_task.
ApplyEdit(t, data) ==
    [t EXCEPT !.title = data.title,
              !.description = data.description,
              !.priority = data.priority,
              !.deadline = data.deadline,
              !.deadline_time = data.deadline_time,
              !.deadline_time_us = data.deadline_time_us,
              !.notify_enabled = data.notify_enabled,
              !.notify_before_minutes = data.notify_before_minutes]

\* ------------------------------------------------------ the task list
\* The characters titles are compared on, in code point order.
Alphabet ==
    <<" ", "A", "B", "C", "a", "b", "c", "d", "n", "s", "t", "x", "y">>

\* The rank of a character in the order str comparison uses.
Ord(c) == CHOOSE k \in 1..Len(Alphabet) : Alphabet[k] = c

\* A mutant of str.lower(): the title is compared as written.
str_lower_KeepsCase(s) == s

\* str.lower()
str_lower(s) ==
    [i \in 1..Len(s) |-> CASE s[i] = "A" -> "a"
                          [] s[i] = "B" -> "b"
                          [] s[i] = "C" -> "c"
                          [] OTHER -> s[i]]

\* a < b on two strings: the first differing character decides, a proper
\* prefix is smaller.
RECURSIVE StrLess(_, _)
StrLess(a, b) ==
    IF b = <<>> THEN FALSE
    ELSE IF a = <<>> THEN TRUE
    ELSE IF Head(a) # Head(b) THEN Ord(Head(a)) < Ord(Head(b))
    ELSE StrLess(Tail(a), Tail(b))

\* priority_order.get(t.priority, 2)
priority_order(priority) ==
    CASE priority = "High" -> 3
      [] priority = "Medium" -> 2
      [] priority = "Low" -> 1
      [] OTHER -> 2

\* datetime.max, later than every deadline of the model.
datetime_max == 1000000

\* The key update_task_list sorts by.
SortKey(t) ==
    <<0 - priority_order(t.priority),
      IF get_deadline_datetime(t) # None THEN get_deadline_datetime(t)
      ELSE datetime_max,
      str_lower(t.title)>>

\* k1 < k2 on two sort keys, as Python compares tuples.
KeyLess(k1, k2) ==
    \/ k1[1] < k2[1]
    \/ k1[1] = k2[1] /\ k1[2] < k2[2]
    \/ k1[1] = k2[1] /\ k1[2] = k2[2] /\ StrLess(k1[3], k2[3])

\* list.sort(key=...) is stable: each task goes behind the tasks already
\* placed whose key is not greater than its own.
RECURSIVE Insert(_, _)
Insert(sorted, t) ==
    IF sorted # <<>> /\ KeyLess(SortKey(t), SortKey(sorted[Len(sorted)]))
    THEN Append(Insert(SubSeq(sorted, 1, Len(sorted) - 1), t),
                sorted[Len(sorted)])
    ELSE Append(sorted, t)

RECURSIVE Sort(_)
Sort(ts) ==
    IF ts = <<>> THEN <<>>
    ELSE Insert(Sort(SubSeq(ts, 1, Len(ts) - 1)), ts[Len(ts)])

\* The entries of the filter combo box.
FilterKinds == {"All", "High Priority", "Medium Priority", "Low Priority",
                "Overdue", "Completed"}

\* A mutant of the filter: a completed task past its deadline is overdue.
Passes_OverdueWhenCompleted(t, kind, nw) ==
    CASE kind = "All" -> TRUE
      [] kind = "High Priority" -> t.priority = "High"
      [] kind = "Medium Priority" -> t.priority = "Medium"
      [] kind = "Low Priority" -> t.priority = "Low"
      [] kind = "Overdue" ->
             get_deadline_datetime(t) # None /\ nw > get_deadline_datetime(t)
      [] kind = "Completed" -> t.completed
      [] OTHER -> FALSE

\* Whether the filter loop of update_task_list appends the task when
\* filter_text is kind.
Passes(t, kind, nw) ==
    CASE kind = "All" -> TRUE
      [] kind = "High Priority" -> t.priority = "High"
      [] kind = "Medium Priority" -> t.priority = "Medium"
      [] kind = "Low Priority" -> t.priority = "Low"
      [] kind = "Overdue" -> is_overdue(t, nw)
      [] kind = "Completed" -> t.completed
      [] OTHER -> FALSE

\* filtered_tasks: the tasks the loop appends, in collection order.
RECURSIVE Filtered(_, _, _)
Filtered(ts, kind, nw) ==
    IF ts = <<>> THEN <<>>
    ELSE LET rest == Filtered(SubSeq(ts, 1, Len(ts) - 1), kind, nw)
         IN IF Passes(ts[Len(ts)], kind, nw)
            THEN Append(rest, ts[Len(ts)])
            ELSE rest

\* TodoApp.update_task_list: the items of the list widget, each the identity
\* of the task it shows.
update_task_list(ts, kind, nw) ==
    LET filtered_tasks == Sort(Filtered(ts, kind, nw))
    IN [k \in 1..Len(filtered_tasks) |-> filtered_tasks[k].id]

\* ------------------------------------------------- the state machine
\* The sample instants the clock visits: the start, and the notification
\* instant (25) and the deadline (30) of the first form, and the minute after.
Instants == {0, 25, 30, 31}

\* The backing files the application may find when it starts.
LegacyRecord ==
    [title |-> <<"c">>, deadline |-> date_isoformat(0), notify_enabled |-> TRUE,
     notify_before_minutes |-> 1440]

BootFiles == {MissingFile, CorruptFile, DocFile(<<LegacyRecord>>)}

\* A handler suspended in a modal dialog: op is the handler, at the dialog it
\* waits in, id the task it holds a reference to (0: none) and idx the position
\* of the sweep's list iterator (0: not a sweep).
Frame(op, at, id, idx) == [op |-> op, at |-> at, id |-> id, idx |-> idx]

Top == stack[Len(stack)]
Below == SubSeq(stack, 1, Len(stack) - 1)

\* The position in ts of the task object with identity id.
IndexOf(ts, id) == CHOOSE i \in 1..Len(ts) : ts[i].id = id

\* list.remove(task)
Remove(ts, id) ==
    LET k == IndexOf(ts, id)
    IN [i \in 1..(Len(ts) - 1) |-> IF i < k THEN ts[i] ELSE ts[i + 1]]

SaveResult(o) == IF o = "ok" THEN "ok" ELSE "failed"

\* The first position from i on whose task should_notify(), or 0 at the end
\* of the list: the loop of check_overdue_and_notifications up to its next
\* show_notification.
NextDue(ts, i, nw) ==
    LET due == {j \in i..Len(ts) : should_notify(ts[j], nw)}
    IN IF due = {} THEN 0 ELSE CHOOSE j \in due : \A k \in due : j <= k

\* The sweep's loop, resumed at position i with below the handlers suspended
\* under it: it either opens the next reminder dialog and is suspended in it,
\* or runs to the end of the list and returns.
SweepLoop(ts, i, below) ==
    LET j == NextDue(ts, i, now)
    IN IF j = 0
       THEN /\ stack' = below
            /\ emitted' = emitted
       ELSE /\ stack' = Append(below, Frame("sweep", "notify", ts[j].id, j))
            /\ emitted' = [emitted EXCEPT ![ts[j].id] = @ + 1]

\* TodoApp.save_tasks on task list ts, with the outcome o the environment
\* gives it.
Save(ts, o) ==
    /\ o # "ok" => failures < MaxFailures
    /\ file' = save_tasks(ts, file, o)
    /\ lastSave' = SaveResult(o)
    /\ failures' = IF o = "ok" THEN failures ELSE failures + 1

\* After save_tasks in a user handler: the error alert suspends the handler,
\* otherwise it returns.
AfterSave(op, id, o) ==
    stack' = IF o = "ok" THEN Below
             ELSE Append(Below, Frame(op, "saveerr", id, 0))

\* The variables of the clock, of the disk and of the pure-function
\* specifications.
clock == <<now, timerOn, timerDue>>
disk == <<file, lastSave, failures>>
other == <<loadError, probe, verdict, filter_text>>

\* self.update_task_list() at the end of a user handler whose save_tasks had
\* outcome o: at once, or when the handler resumes from the error alert.
RefreshAfterSave(ts, o) ==
    task_list' = IF o = "ok" THEN update_task_list(ts, filter_text, now)
                 ELSE task_list

Init ==
    /\ tasks = <<>>
    /\ file \in BootFiles
    /\ now = 0
    /\ timerOn = FALSE
    /\ timerDue = FALSE
    /\ stack = <<>>
    /\ created = 0
    /\ ops = 0
    /\ failures = 0
    /\ windowTitle = 0
    /\ emitted = <<>>
    /\ loadError = FALSE
    /\ lastSave = "none"
    /\ probe = <<>>
    /\ verdict = "unset"
    /\ filter_text = "All"
    /\ task_list = <<>>

\* TodoApp.__init__: load_tasks, update_task_list, then the timer is started.
Construct ==
    /\ ~timerOn
    /\ LET r == load_tasks(file, now)
       IN /\ tasks' = r.tasks
          /\ loadError' = r.error
          /\ created' = Len(r.tasks)
          /\ emitted' = [i \in 1..Len(r.tasks) |-> 0]
          /\ task_list' = update_task_list(r.tasks, filter_text, now)
    /\ timerOn' = TRUE
    /\ UNCHANGED <<now, timerDue, stack, ops, windowTitle, disk, probe, verdict,
                   filter_text>>

\* Wall-clock time passes, whatever dialog is open.
Tick ==
    /\ timerOn
    /\ \E t \in Instants : t > now /\ now' = t
    /\ timerDue' = TRUE
    /\ UNCHANGED <<tasks, timerOn, stack, created, ops, windowTitle, emitted,
                   disk, other, task_list>>

\* The QTimer's timeout is delivered to whichever event loop is running:
\* check_overdue_and_notifications up to its first reminder dialog.
check_overdue_and_notifications ==
    /\ timerOn /\ timerDue
    /\ Len(stack) < MaxDepth
    /\ timerDue' = FALSE
    /\ windowTitle' = Cardinality({i \in 1..Len(tasks) : is_overdue(tasks[i], now)})
    /\ SweepLoop(tasks, 1, stack)
    /\ UNCHANGED <<tasks, now, timerOn, created, ops, disk, other, task_list>>

\* A mutant of the sweep after a reminder: a failed save takes the latch back.
DismissNotification_RollsBack(o) ==
    /\ stack # <<>> /\ Top.at = "notify"
    /\ LET ts == [tasks EXCEPT ![IndexOf(tasks, Top.id)].notified = TRUE]
       IN /\ tasks' = IF o = "ok" THEN ts ELSE tasks
          /\ Save(ts, o)
          /\ IF o = "ok"
             THEN SweepLoop(ts, Top.idx + 1, Below)
             ELSE /\ stack' = Append(Below,
                                     Frame("sweep", "saveerr", Top.id, Top.idx))
                  /\ emitted' = emitted
    /\ UNCHANGED <<clock, created, ops, windowTitle, other, task_list>>

\* A mutant of the sweep after a reminder: the latch is set on every task.
DismissNotification_MarksAll(o) ==
    /\ stack # <<>> /\ Top.at = "notify"
    /\ LET ts == [i \in 1..Len(tasks) |-> [tasks[i] EXCEPT !.notified = TRUE]]
       IN /\ tasks' = ts
          /\ Save(ts, o)
          /\ IF o = "ok"
             THEN SweepLoop(ts, Top.idx + 1, Below)
             ELSE /\ stack' = Append(Below,
                                     Frame("sweep", "saveerr", Top.id, Top.idx))
                  /\ emitted' = emitted
    /\ UNCHANGED <<clock, created, ops, windowTitle, other, task_list>>

\* The reminder dialog of show_notification is dismissed: the sweep sets the
\* latch, saves, and goes on with its loop.
DismissNotification(o) ==
    /\ stack # <<>> /\ Top.at = "notify"
    /\ LET ts == [tasks EXCEPT ![IndexOf(tasks, Top.id)].notified = TRUE]
       IN /\ tasks' = ts
          /\ Save(ts, o)
          /\ IF o = "ok"
             THEN SweepLoop(ts, Top.idx + 1, Below)
             ELSE /\ stack' = Append(Below,
                                     Frame("sweep", "saveerr", Top.id, Top.idx))
                  /\ emitted' = emitted
    /\ UNCHANGED <<clock, created, ops, windowTitle, other, task_list>>

\* The "Failed to save tasks" alert is dismissed: a sweep goes on with its
\* loop, a user handler refreshes the list and returns.
DismissSaveError ==
    /\ stack # <<>> /\ Top.at = "saveerr"
    /\ IF Top.op = "sweep"
       THEN SweepLoop(tasks, Top.idx + 1, Below) /\ task_list' = task_list
       ELSE /\ stack' = Below /\ emitted' = emitted
            /\ task_list' = update_task_list(tasks, filter_text, now)
    /\ UNCHANGED <<tasks, clock, created, ops, windowTitle, disk, other>>

\* A user handler can begin: the main window takes input only while no modal
\* dialog is open.
CanBegin == timerOn /\ stack = <<>> /\ ops < MaxOps

\* add_task up to dialog.exec_(): the TaskDialog opens.
add_task_open ==
    /\ CanBegin
    /\ ops' = ops + 1
    /\ stack' = <<Frame("add", "form", 0, 0)>>
    /\ UNCHANGED <<tasks, clock, created, windowTitle, emitted, disk, other, task_list>>

\* add_task from the dialog's OK: get_task_data, then either its warning, or
\* the append and save_tasks.
add_task_accept(inp, o) ==
    /\ stack # <<>> /\ Top.op = "add" /\ Top.at = "form"
    /\ LET r == get_task_data(inp, now)
       IN IF ~r.ok
          THEN /\ stack' = Append(Below, Frame("add", "warning", 0, 0))
               /\ UNCHANGED <<tasks, created, emitted, disk, task_list>>
          ELSE LET ts == Append(tasks, NewTask(created + 1, r.data, now))
               IN /\ tasks' = ts
                  /\ created' = created + 1
                  /\ emitted' = Append(emitted, 0)
                  /\ Save(ts, o)
                  /\ AfterSave("add", 0, o)
                  /\ RefreshAfterSave(ts, o)
    /\ UNCHANGED <<clock, ops, windowTitle, other>>

\* edit_task up to dialog.exec_(): the TaskDialog opens on the selected task.
edit_task_open(i) ==
    /\ CanBegin
    /\ i \in 1..Len(tasks)
    /\ ops' = ops + 1
    /\ stack' = <<Frame("edit", "form", tasks[i].id, 0)>>
    /\ UNCHANGED <<tasks, clock, created, windowTitle, emitted, disk, other, task_list>>

\* edit_task from the dialog's OK: get_task_data, then either its warning, or
\* the seven assignments and save_tasks.
edit_task_accept(inp, o) ==
    /\ stack # <<>> /\ Top.op = "edit" /\ Top.at = "form"
    /\ LET r == get_task_data(inp, now)
           k == IndexOf(tasks, Top.id)
       IN IF ~r.ok
          THEN /\ stack' = Append(Below, Frame("edit", "warning", Top.id, 0))
               /\ UNCHANGED <<tasks, disk, task_list>>
          ELSE LET ts == [tasks EXCEPT ![k] = ApplyEdit(tasks[k], r.data)]
               IN /\ tasks' = ts
                  /\ Save(ts, o)
                  /\ AfterSave("edit", Top.id, o)
                  /\ RefreshAfterSave(ts, o)
    /\ UNCHANGED <<clock, created, ops, windowTitle, emitted, other>>

\* The TaskDialog is cancelled: add_task or edit_task returns.
RejectForm ==
    /\ stack # <<>> /\ Top.at = "form"
    /\ stack' = Below
    /\ UNCHANGED <<tasks, clock, created, ops, windowTitle, emitted, disk, other, task_list>>

\* The warning of get_task_data is dismissed: it returns None and the
\* handler returns.
DismissWarning ==
    /\ stack # <<>> /\ Top.at = "warning"
    /\ stack' = Below
    /\ UNCHANGED <<tasks, clock, created, ops, windowTitle, emitted, disk, other, task_list>>

\* delete_task up to QMessageBox.question.
delete_task_ask(i) ==
    /\ CanBegin
    /\ i \in 1..Len(tasks)
    /\ ops' = ops + 1
    /\ stack' = <<Frame("delete", "question", tasks[i].id, 0)>>
    /\ UNCHANGED <<tasks, clock, created, windowTitle, emitted, disk, other, task_list>>

\* delete_task from the answer: on Yes the task is removed and save_tasks runs.
delete_task_answer(yes, o) ==
    /\ stack # <<>> /\ Top.at = "question"
    /\ IF yes
       THEN LET ts == Remove(tasks, Top.id)
            IN /\ tasks' = ts
               /\ Save(ts, o)
               /\ AfterSave("delete", 0, o)
               /\ RefreshAfterSave(ts, o)
       ELSE /\ stack' = Below
            /\ UNCHANGED <<tasks, disk, task_list>>
    /\ UNCHANGED <<clock, created, ops, windowTitle, emitted, other>>

\* A mutant of toggle_task_completion: the flip is not followed by a save.
toggle_task_completion_NoSave(i, o) ==
    /\ CanBegin
    /\ i \in 1..Len(tasks)
    /\ ops' = ops + 1
    /\ tasks' = [tasks EXCEPT ![i].completed = ~@]
    /\ task_list' = update_task_list(tasks', filter_text, now)
    /\ UNCHANGED <<clock, stack, created, windowTitle, emitted, disk, other>>

\* toggle_task_completion on the selected task.
toggle_task_completion(i, o) ==
    /\ CanBegin
    /\ i \in 1..Len(tasks)
    /\ ops' = ops + 1
    /\ LET ts == [tasks EXCEPT ![i].completed = ~@]
       IN /\ tasks' = ts
          /\ Save(ts, o)
          /\ stack' = IF o = "ok" THEN <<>>
                      ELSE <<Frame("toggle", "saveerr", tasks[i].id, 0)>>
          /\ RefreshAfterSave(ts, o)
    /\ UNCHANGED <<clock, created, windowTitle, emitted, other>>

\* The tasks the user can select: those an item of the list widget shows.
Selectable ==
    {i \in 1..Len(tasks) : \E k \in 1..Len(task_list) : task_list[k] = tasks[i].id}

Next ==
    \/ Construct
    \/ Tick
    \/ check_overdue_and_notifications
    \/ \E o \in SaveOutcomes : DismissNotification(o)
    \/ DismissSaveError
    \/ add_task_open
    \/ \E inp \in FormInputs, o \in SaveOutcomes : add_task_accept(inp, o)
    \/ \E i \in Selectable : edit_task_open(i)
    \/ \E inp \in FormInputs, o \in SaveOutcomes : edit_task_accept(inp, o)
    \/ RejectForm
    \/ DismissWarning
    \/ \E i \in Selectable : delete_task_ask(i)
    \/ \E yes \in BOOLEAN, o \in SaveOutcomes : delete_task_answer(yes, o)
    \/ \E i \in Selectable, o \in SaveOutcomes : toggle_task_completion(i, o)

Spec == Init /\ [][Next]_vars

\* A dialog a sweep is suspended in (a reminder, or the alert of its failed
\* save) is dismissed.
SweepDialogDismissed ==
    \/ \E o \in SaveOutcomes : DismissNotification(o)
    \/ stack # <<>> /\ Top.op = "sweep" /\ DismissSaveError

\* The application under the scheduling the event loop gives it: a timeout of
\* the started QTimer that is due is delivered to the running event loop, and
\* a dialog that suspends a sweep is dismissed at some time.
SpecLive ==
    /\ Init /\ [][Next]_vars
    /\ WF_vars(check_overdue_and_notifications)
    /\ WF_vars(SweepDialogDismissed)

\* ------------------------------------- the loading specification
\* The records a backing file may hold: written by an older version (keys
\* missing, the time as a full timestamp), written by save_tasks, damaged.
FileRecords ==
    { LegacyRecord,
      to_dict(NewTask(1, [title |-> <<"a">>, description |-> <<>>,
                          priority |-> "High", deadline |-> 0,
                          deadline_time |-> 30, deadline_time_us |-> 0,
                          notify_enabled |-> TRUE,
                          notify_before_minutes |-> 5], 0)),
      [title |-> <<"t">>, deadline |-> date_isoformat(1),
       deadline_time |-> datetime_isoformat(30)],
      [title |-> <<"s">>, deadline |-> date_isoformat(0),
       deadline_time |-> <<"s", "o", "o", "n">>],
      [title |-> <<"n">>, deadline |-> JNull,
       deadline_time |-> time_isoformat(30)],
      [title |-> <<"x">>, deadline |-> <<"s", "o", "o", "n">>],
      [title |-> <<"y">>, deadline |-> date_isoformat(0),
       deadline_time |-> JNumber],
      NotADict }

RECURSIVE SeqsUpTo(_, _)
SeqsUpTo(S, n) ==
    IF n = 0 THEN {<<>>}
    ELSE LET shorter == SeqsUpTo(S, n - 1)
         IN shorter \cup {Append(q, x) : q \in shorter, x \in S}

LoadFiles ==
    {MissingFile, CorruptFile, ScalarFile}
        \cup {DocFile(recs) : recs \in SeqsUpTo(FileRecords, MaxFileLen)}

InitLoad ==
    /\ tasks = <<>>
    /\ file \in LoadFiles
    /\ now = 0
    /\ timerOn = FALSE
    /\ timerDue = FALSE
    /\ stack = <<>>
    /\ created = 0
    /\ ops = 0
    /\ failures = 0
    /\ windowTitle = 0
    /\ emitted = <<>>
    /\ loadError = FALSE
    /\ lastSave = "none"
    /\ probe = <<>>
    /\ verdict = "unset"
    /\ filter_text = "All"
    /\ task_list = <<>>

SpecLoad == InitLoad /\ [][Construct]_vars

\* -------------------------------- the should_notify specification
\* The tasks and times should_notify() is examined on.
ProbeTasks ==
    [notify_enabled : BOOLEAN, completed : BOOLEAN, notified : BOOLEAN,
     deadline : {None, 0, 1}, deadline_time : {None, 30},
     notify_before_minutes : {5, 30, 1440}]

ProbeInstants == {0, 24, 25, 30, 1408, 1409, 1440}

InitProbe ==
    /\ tasks = <<>>
    /\ file = MissingFile
    /\ now \in ProbeInstants
    /\ timerOn = FALSE
    /\ timerDue = FALSE
    /\ stack = <<>>
    /\ created = 0
    /\ ops = 0
    /\ failures = 0
    /\ windowTitle = 0
    /\ emitted = <<>>
    /\ loadError = FALSE
    /\ lastSave = "none"
    /\ probe \in ProbeTasks
    /\ verdict = "unset"
    /\ filter_text = "All"
    /\ task_list = <<>>

\* task.should_notify() is called on the probe.
Probe ==
    /\ verdict = "unset" /\ probe # <<>>
    /\ verdict' = IF should_notify(probe, now) THEN "yes" ELSE "no"
    /\ UNCHANGED <<tasks, clock, stack, created, ops, windowTitle, emitted,
                   disk, loadError, probe, filter_text, task_list>>

SpecProbe == InitProbe /\ [][Probe]_vars

\* ------------------------------------- the task-list specification
\* The tasks update_task_list is examined on (the fields it reads): every
\* priority weight, deadlines with and without a time and none at all, titles
\* that differ by case only, and tasks equal on every sort key.
ListTasks ==
    { [id |-> 0, title |-> <<"B">>, priority |-> "Low", deadline |-> None,
       deadline_time |-> None, completed |-> FALSE],
      [id |-> 0, title |-> <<"A">>, priority |-> "High", deadline |-> 1,
       deadline_time |-> None, completed |-> FALSE],
      [id |-> 0, title |-> <<"C">>, priority |-> "High", deadline |-> 0,
       deadline_time |-> None, completed |-> FALSE],
      [id |-> 0, title |-> <<"a">>, priority |-> "High", deadline |-> 0,
       deadline_time |-> 30, completed |-> FALSE],
      [id |-> 0, title |-> <<"a">>, priority |-> "High", deadline |-> 0,
       deadline_time |-> 30, completed |-> TRUE],
      [id |-> 0, title |-> <<"a">>, priority |-> "Medium", deadline |-> None,
       deadline_time |-> None, completed |-> TRUE],
      [id |-> 0, title |-> <<"b">>, priority |-> "Urgent", deadline |-> None,
       deadline_time |-> None, completed |-> FALSE],
      [id |-> 0, title |-> <<"B">>, priority |-> "Medium", deadline |-> None,
       deadline_time |-> None, completed |-> FALSE] }

\* The collection made of the tasks q, each with its own identity.
Collection(q) == [i \in 1..Len(q) |-> [q[i] EXCEPT !.id = i]]

\* The times the list is looked at: the start, past the 00:30 deadline, the
\* last minute of day 0 and the first of day 1.
ListInstants == {0, 31, 1439, 1440}

InitList ==
    /\ tasks \in {Collection(q) : q \in SeqsUpTo(ListTasks, MaxListLen)}
    /\ file = MissingFile
    /\ now \in ListInstants
    /\ timerOn = TRUE
    /\ timerDue = FALSE
    /\ stack = <<>>
    /\ created = Len(tasks)
    /\ ops = 0
    /\ failures = 0
    /\ windowTitle = 0
    /\ emitted = [i \in 1..Len(tasks) |-> 0]
    /\ loadError = FALSE
    /\ lastSave = "none"
    /\ probe = <<>>
    /\ verdict = "unset"
    /\ filter_text = "All"
    /\ task_list = update_task_list(tasks, filter_text, now)

\* The user picks another entry of the filter combo box: currentTextChanged
\* is connected to update_task_list.
currentTextChanged(kind) ==
    /\ timerOn /\ stack = <<>>
    /\ kind # filter_text
    /\ filter_text' = kind
    /\ task_list' = update_task_list(tasks, kind, now)
    /\ UNCHANGED <<tasks, clock, stack, created, ops, windowTitle, emitted,
                   disk, loadError, probe, verdict>>

NextList == \E kind \in FilterKinds : currentTextChanged(kind)

SpecList == InitList /\ [][NextList]_vars

\* ------------------------------------- the round-trip specification
\* The tasks that are saved and loaded again: a deadline with a whole-minute
\* time, a date without a time, no deadline, a time without a date, midnight
\* with a zero lead time, a time with seconds, and a time with seconds and
\* microseconds (QTime.currentTime().addSecs(60) in the TaskDialog is one).
RoundBase ==
    [id |-> 0, title |-> <<"a">>, description |-> <<"d">>, priority |-> "High",
     deadline |-> 0, deadline_time |-> 30, deadline_time_us |-> 0,
     notify_enabled |-> TRUE, notify_before_minutes |-> 5, completed |-> FALSE,
     created_at |-> datetime_isoformat(25), notified |-> FALSE]

RoundTasks ==
    { RoundBase,
      [RoundBase EXCEPT !.title = <<"b">>, !.description = <<>>,
                        !.priority = "Low", !.deadline = 1,
                        !.deadline_time = None, !.notify_enabled = FALSE,
                        !.notify_before_minutes = 30, !.completed = TRUE,
                        !.notified = TRUE],
      [RoundBase EXCEPT !.title = <<"c">>, !.priority = "Medium",
                        !.deadline = None, !.deadline_time = None],
      [RoundBase EXCEPT !.title = <<"n">>, !.deadline = None],
      [RoundBase EXCEPT !.title = <<"C">>, !.deadline_time = 0,
                        !.notify_before_minutes = 0],
      [RoundBase EXCEPT !.title = <<"A">>,
                        !.deadline_time_us = 15 * MicrosPerSecond],
      [RoundBase EXCEPT !.title = <<"B">>,
                        !.deadline_time_us = 15 * MicrosPerSecond + 500000] }

InitRound ==
    /\ tasks \in {Collection(q) : q \in SeqsUpTo(RoundTasks, MaxRoundLen)}
    /\ tasks # <<>>
    /\ file = MissingFile
    /\ now = 31
    /\ timerOn = TRUE
    /\ timerDue = FALSE
    /\ stack = <<>>
    /\ created = Len(tasks)
    /\ ops = 0
    /\ failures = 0
    /\ windowTitle = 0
    /\ emitted = [i \in 1..Len(tasks) |-> 0]
    /\ loadError = FALSE
    /\ lastSave = "none"
    /\ probe = tasks
    /\ verdict = "unset"
    /\ filter_text = "All"
    /\ task_list = update_task_list(tasks, filter_text, now)

\* save_tasks writes the collection and the application is closed: its
\* objects are gone, the file stays.
SaveAndQuit ==
    /\ timerOn /\ stack = <<>> /\ lastSave = "none"
    /\ file' = save_tasks(tasks, file, "ok")
    /\ lastSave' = "ok"
    /\ tasks' = <<>>
    /\ task_list' = <<>>
    /\ emitted' = <<>>
    /\ created' = 0
    /\ timerOn' = FALSE
    /\ UNCHANGED <<now, timerDue, stack, ops, failures, windowTitle, other>>

\* The application is closed and started again on the file it left.
SpecRound == InitRound /\ [][SaveAndQuit \/ Construct]_vars

\* ------------------------------------------------------ the claims
\* The task object with identity id is in the list ts.
Has(ts, id) == \E i \in 1..Len(ts) : ts[i].id = id
TaskOf(ts, id) == ts[IndexOf(ts, id)]
Ids(ts) == {ts[i].id : i \in 1..Len(ts)}

\* C1: over any run of sweeps and user operations, a reminder dialog is opened
\* at most once for any task.
C1_AtMostOneReminder == \A id \in DOMAIN emitted : emitted[id] <= 1

\* C2: the sweep never overlaps with itself: at most one invocation of
\* check_overdue_and_notifications is in progress at any time.
C2_SweepNeverOverlaps ==
    Cardinality({k \in 1..Len(stack) : stack[k].op = "sweep"}) <= 1

\* C3: notified is a latch.  Once a task's notified is true, no step sets it
\* back to false while the task is in the collection, and no further reminder
\* dialog is opened for that task, whatever deadline an edit gives it.
C3_NotifiedIsLatch ==
    [][\A id \in Ids(tasks) :
          (TaskOf(tasks, id).notified /\ Has(tasks', id))
              => /\ TaskOf(tasks', id).notified
                 /\ emitted'[id] = emitted[id]]_vars

\* C3 witness: the file still shows the loaded task as notified with its old
\* date-only deadline; in memory an edit (whose save failed) gave it the
\* deadline 00:30 with a reminder 5 minutes before; a sweep has run at or
\* after 00:30, and the task is still notified with its one reminder.
C3_EditedAfterReminder ==
    /\ now >= 30 /\ ~timerDue /\ stack = <<>>
    /\ Len(tasks) = 1 /\ tasks[1].id = 1
    /\ tasks[1].notified /\ tasks[1].notify_enabled
    /\ tasks[1].deadline_time = 30
    /\ emitted[1] = 1
    /\ lastSave = "failed"
    /\ file.kind = "doc" /\ Len(file.recs) = 1
    /\ file.recs[1].notified /\ file.recs[1].deadline_time = JNull

\* C4: whenever the latest save_tasks call succeeded, the backing file is
\* the serialisation of the whole current task list, in collection order:
\* no step changes the collection without saving it.
C4_FileMatchesTasks ==
    lastSave = "ok"
        => /\ file.kind = "doc"
           /\ Len(file.recs) = Len(tasks)
           /\ \A i \in 1..Len(tasks) : file.recs[i] = to_dict(tasks[i])

\* C4 witness: after a failed save and later successful ones, with a task
\* added, completed and notified in memory and in the file.
C4_SavedAfterMutations ==
    /\ lastSave = "ok" /\ failures = 1 /\ stack = <<>>
    /\ \E i \in 1..Len(tasks) :
          /\ tasks[i].completed /\ tasks[i].notified
          /\ file.recs[i].completed /\ file.recs[i].notified

\* C5: save_tasks overwrites the file atomically: after any step the file
\* holds its previous content or the complete new document.
C5_SaveIsAtomic == [][file' # file => file' = Serialise(tasks')]_vars

\* The task data a valid form input inp leaves in task t.
HoldsInput(t, inp) ==
    /\ t.title = strip(inp.title)
    /\ t.description = strip(inp.description)
    /\ t.priority = inp.priority
    /\ t.deadline = inp.deadline
    /\ t.deadline_time = inp.deadline_time
    /\ t.notify_enabled = inp.notify_enabled
    /\ t.notify_before_minutes = inp.notify_before_minutes

\* C6: a step in which save_tasks fails keeps the mutation that preceded it
\* (the appended task, the edited fields, the removal, the flipped completed,
\* the notified flag set by the sweep), writes no complete document (no
\* retry), and opens no reminder; and while the latest save has failed no
\* reminder is opened for a task whose notified is true.
C6_FailedSaveKeepsMutation ==
    [][/\ failures' > failures =>
          /\ lastSave' = "failed"
          /\ file' \in {file, CorruptFile}
          /\ emitted' \in {emitted, Append(emitted, 0)}
          /\ stack # <<>> /\ Top.at = "notify" =>
                TaskOf(tasks', Top.id).notified
          /\ stack # <<>> /\ Top.op = "add" =>
                /\ Len(tasks') = Len(tasks) + 1
                /\ SubSeq(tasks', 1, Len(tasks)) = tasks
                /\ \E inp \in FormInputs : HoldsInput(tasks'[Len(tasks')], inp)
          /\ stack # <<>> /\ Top.op = "edit" =>
                /\ Ids(tasks') = Ids(tasks)
                /\ \E inp \in FormInputs : HoldsInput(TaskOf(tasks', Top.id), inp)
          /\ stack # <<>> /\ Top.op = "delete" =>
                /\ Len(tasks') = Len(tasks) - 1
                /\ Ids(tasks') = Ids(tasks) \ {Top.id}
          /\ stack = <<>> =>
                \E i \in 1..Len(tasks) :
                    tasks' = [tasks EXCEPT ![i].completed = ~@]
       /\ lastSave = "failed" =>
             \A id \in Ids(tasks) \cap Ids(tasks') :
                 TaskOf(tasks, id).notified => emitted'[id] = emitted[id]]_vars

\* C6 witness: the sweep's save failed: its error alert is open, the task is
\* notified in memory and not in the file, and its reminder was shown once.
C6_SweepSaveFailed ==
    /\ stack # <<>> /\ Top.op = "sweep" /\ Top.at = "saveerr"
    /\ TaskOf(tasks, Top.id).notified
    /\ emitted[Top.id] = 1
    /\ lastSave = "failed"
    /\ file.kind = "doc" /\ ~file.recs[Top.idx].notified

\* C7: load_tasks is all-or-nothing.  A missing file gives an empty
\* collection and no alert; a file that is no JSON, or one of whose records
\* fails to decode, gives an empty collection; otherwise the collection holds
\* the task decoded from each record, in file order.
C7_LoadAllOrNothing ==
    timerOn =>
        /\ file.kind = "missing" => tasks = <<>> /\ ~loadError
        /\ file.kind = "corrupt" => tasks = <<>>
        /\ (\E i \in 1..Len(file.recs) : from_dict_raises(file.recs[i]))
               => tasks = <<>>
        /\ (file.kind = "doc"
              /\ \A i \in 1..Len(file.recs) : ~from_dict_raises(file.recs[i]))
               => /\ Len(tasks) = Len(file.recs)
                  /\ \A i \in 1..Len(tasks) :
                        tasks[i] = from_dict(file.recs[i], i, now)
                  /\ ~loadError

\* C7 witness: the first record of the file decodes and the second does not;
\* the loaded collection is empty and the alert was shown.
C7_SecondRecordFails ==
    /\ timerOn /\ file.kind = "doc" /\ Len(file.recs) = 2
    /\ ~from_dict_raises(file.recs[1]) /\ from_dict_raises(file.recs[2])
    /\ tasks = <<>> /\ loadError

\* A form input fails validation at time nw: its title is empty after
\* trimming, or its deadline is not strictly later than nw.
FailsValidation(inp, nw) ==
    \/ strip(inp.title) = <<>>
    \/ inp.deadline * MinutesPerDay + inp.deadline_time <= nw

\* C8: a form submission that fails validation appends no task, changes no
\* field of any task and does not call save_tasks: the collection and the
\* backing file are as before.
C8_InvalidFormChangesNothing ==
    [][\A inp \in FormInputs :
          (/\ FailsValidation(inp, now)
           /\ \E o \in SaveOutcomes :
                 add_task_accept(inp, o) \/ edit_task_accept(inp, o))
              => UNCHANGED <<tasks, file, lastSave, failures, created>>]_vars

\* C8 witness: the validation warning of an edit is open at the very minute
\* of the deadline the forms offer; nothing was ever saved and the loaded
\* task is as it was loaded.
C8_EditRejected ==
    /\ stack # <<>> /\ Top.op = "edit" /\ Top.at = "warning"
    /\ now = 30
    /\ lastSave = "none"
    /\ file = DocFile(<<LegacyRecord>>)
    /\ tasks = <<from_dict(LegacyRecord, 1, 0)>>

\* The deadline datetime as the data model states it: the date with the time,
\* or with 23:59 when only the date is set.
ClaimedDeadline(t) ==
    t.deadline * MinutesPerDay
        + (IF t.deadline_time = None THEN 23 * 60 + 59 ELSE t.deadline_time)

\* C9: should_notify() is true if and only if notify_enabled is true,
\* completed is false, notified is false, a deadline date is set, and the
\* current time is at or after the deadline datetime minus
\* notify_before_minutes.
C9_ShouldNotifyIff ==
    verdict # "unset" =>
        (verdict = "yes" <=>
            /\ probe.notify_enabled
            /\ ~probe.completed
            /\ ~probe.notified
            /\ probe.deadline # None
            /\ now >= ClaimedDeadline(probe) - probe.notify_before_minutes)

\* C9 witness: a task with a date and no time is due exactly 30 minutes
\* before 23:59.
C9_DateOnlyDue ==
    /\ verdict = "yes"
    /\ probe.deadline = 0 /\ probe.deadline_time = None
    /\ probe.notify_before_minutes = 30
    /\ now = 1409

\* C10 as stated: a task whose should_notify() is true keeps it true at every
\* later time until notified is set, whatever operation is applied in between.
C10_DueUntilNotified ==
    [][\A id \in Ids(tasks) \cap Ids(tasks') :
          (should_notify(TaskOf(tasks, id), now) /\ ~TaskOf(tasks', id).notified)
              => should_notify(TaskOf(tasks', id), now')]_vars

\* C10 as amended: a task with notifications enabled, a deadline, not completed
\* and not notified is due exactly from deadline minus notify_before_minutes
\* on; a due task stays due over every step that leaves its fields as they
\* are; and a task whose notified is set is not due after any step.
C10_DueWhileUntouched ==
    [][\A id \in Ids(tasks) \cap Ids(tasks') :
          LET t == TaskOf(tasks, id)
              u == TaskOf(tasks', id)
          IN /\ (t.notify_enabled /\ ~t.completed /\ ~t.notified
                   /\ t.deadline # None)
                  => (should_notify(t, now) <=>
                        now >= ClaimedDeadline(t) - t.notify_before_minutes)
             /\ (should_notify(t, now) /\ u = t) => should_notify(u, now')
             /\ t.notified => ~should_notify(u, now')]_vars

\* C10 witness: a task due since 00:25 is still due, and not notified, at
\* 00:31, after its deadline.
C10_StillDueLater ==
    \E i \in 1..Len(tasks) :
        /\ tasks[i].deadline_time = 30 /\ tasks[i].notify_before_minutes = 5
        /\ ~tasks[i].notified /\ should_notify(tasks[i], now)
        /\ now = 31

\* The task an item of the list widget shows.
Shown(k) == TaskOf(tasks, task_list[k])

\* The weight the ordering gives a priority.
ClaimedWeight(priority) ==
    IF priority = "High" THEN 3 ELSE IF priority = "Low" THEN 1 ELSE 2

\* A title with its capital letters folded to small ones.
CaseFolded(title) ==
    [i \in 1..Len(title) |->
        IF title[i] = "A" THEN "a"
        ELSE IF title[i] = "B" THEN "b"
        ELSE IF title[i] = "C" THEN "c" ELSE title[i]]

\* Whether the ordering lets task a stand before task b.
StandsBefore(a, b) ==
    LET sameWeight == ClaimedWeight(a.priority) = ClaimedWeight(b.priority)
        sameDeadline == \/ a.deadline = None /\ b.deadline = None
                        \/ /\ a.deadline # None /\ b.deadline # None
                           /\ ClaimedDeadline(a) = ClaimedDeadline(b)
        sameTitle == CaseFolded(a.title) = CaseFolded(b.title)
    IN \/ ClaimedWeight(a.priority) > ClaimedWeight(b.priority)
       \/ sameWeight /\ a.deadline # None /\ b.deadline = None
       \/ /\ sameWeight /\ a.deadline # None /\ b.deadline # None
          /\ ClaimedDeadline(a) < ClaimedDeadline(b)
       \/ /\ sameWeight /\ sameDeadline
          /\ StrLess(CaseFolded(a.title), CaseFolded(b.title))
       \/ /\ sameWeight /\ sameDeadline /\ sameTitle
          /\ IndexOf(tasks, a.id) < IndexOf(tasks, b.id)

\* The collection of the example: B (Low, no deadline), A (High, the later
\* date), C (High, the earlier date).
IsExample ==
    /\ Len(tasks) = 3
    /\ tasks[1].title = <<"B">> /\ tasks[1].priority = "Low"
    /\ tasks[1].deadline = None
    /\ tasks[2].title = <<"A">> /\ tasks[2].priority = "High"
    /\ tasks[2].deadline = 1
    /\ tasks[3].title = <<"C">> /\ tasks[3].priority = "High"
    /\ tasks[3].deadline = 0

\* C11: whatever the collection and the filter kind, the list is ordered by
\* priority descending (High 3, Medium 2, Low 1, any other as Medium), then
\* by deadline datetime ascending with the tasks without a deadline last,
\* then by title ascending without regard to case; tasks equal on all three
\* keep their collection order; [B Low, A High later, C High earlier] is
\* shown as [C, A, B].
C11_ListIsOrdered ==
    /\ \A p, q \in 1..Len(task_list) :
           p < q => StandsBefore(Shown(p), Shown(q))
    /\ IsExample /\ filter_text = "All" => task_list = <<3, 2, 1>>

\* C11 witness: the list made of the example collection shows it as
\* [C, A, B].
C11_ExampleShown ==
    IsExample /\ filter_text = "All" /\ task_list = <<3, 2, 1>>

\* Whether the filter kind lets the task through, as the kinds are described.
ClaimedPasses(t) ==
    \/ filter_text = "All"
    \/ filter_text = "High Priority" /\ t.priority = "High"
    \/ filter_text = "Medium Priority" /\ t.priority = "Medium"
    \/ filter_text = "Low Priority" /\ t.priority = "Low"
    \/ filter_text = "Completed" /\ t.completed
    \/ /\ filter_text = "Overdue"
       /\ ~t.completed /\ t.deadline # None /\ ClaimedDeadline(t) < now

\* C12: whatever the collection and the filter kind, the list shows each
\* task that satisfies the kind's predicate exactly once and no other task.
C12_ListIsFiltered ==
    /\ \A p, q \in 1..Len(task_list) : p # q => task_list[p] # task_list[q]
    /\ {task_list[k] : k \in 1..Len(task_list)}
           = {tasks[i].id : i \in {j \in 1..Len(tasks) : ClaimedPasses(tasks[j])}}

\* C12 witness: the Overdue list shows a task and leaves out a completed one
\* whose deadline has passed.
C12_CompletedNotOverdue ==
    /\ filter_text = "Overdue" /\ task_list # <<>>
    /\ \E i \in 1..Len(tasks) :
           /\ tasks[i].completed /\ tasks[i].deadline # None
           /\ ClaimedDeadline(tasks[i]) < now
           /\ \A k \in 1..Len(task_list) : task_list[k] # tasks[i].id

\* Whether two tasks agree on every stored field.
SameStored(a, b) ==
    /\ a.title = b.title
    /\ a.description = b.description
    /\ a.priority = b.priority
    /\ a.deadline = b.deadline
    /\ a.deadline_time = b.deadline_time
    /\ a.deadline_time_us = b.deadline_time_us
    /\ a.notify_enabled = b.notify_enabled
    /\ a.notify_before_minutes = b.notify_before_minutes
    /\ a.completed = b.completed
    /\ a.created_at = b.created_at
    /\ a.notified = b.notified

\* The application was started on the file a save of the collection probe
\* left.
Reloaded == timerOn /\ lastSave = "ok" /\ probe # <<>>

\* C13: a non-empty collection that is saved and loaded again has the same
\* length and order and every task has the same stored fields as before; a
\* task saved with a date and no time is loaded without a time (23:59 is in
\* its derived deadline datetime only).
C13_RoundTrip ==
    Reloaded =>
        /\ Len(tasks) = Len(probe)
        /\ \A i \in 1..Len(tasks) :
               /\ SameStored(tasks[i], probe[i])
               /\ probe[i].deadline # None /\ probe[i].deadline_time = None
                      => /\ tasks[i].deadline_time = None
                         /\ get_deadline_datetime(tasks[i])
                                = probe[i].deadline * MinutesPerDay + 23 * 60 + 59

\* A step of a reminder sweep: the timeout that starts it, or the dismissal
\* of a dialog it is suspended in.
SweepStep ==
    \/ timerDue /\ ~timerDue'
    \/ stack # <<>> /\ Top.op = "sweep"

\* C14: a reminder sweep changes nothing in the collection except setting
\* notified from false to true on tasks for which should_notify() held (no
\* task added, removed or moved, no other field changed), and a task leaves
\* the collection only by a delete_task the user confirmed.
C14_SweepOnlySetsLatch ==
    [][/\ SweepStep =>
           /\ Len(tasks') = Len(tasks)
           /\ \A i \in 1..Len(tasks) :
                  \/ tasks'[i] = tasks[i]
                  \/ /\ tasks'[i] = [tasks[i] EXCEPT !.notified = TRUE]
                     /\ ~tasks[i].notified
                     /\ should_notify(tasks[i], now)
       /\ (\E id \in Ids(tasks) : id \notin Ids(tasks')) =>
           /\ stack # <<>> /\ Top.op = "delete" /\ Top.at = "question"
           /\ Ids(tasks') = Ids(tasks) \ {Top.id}]_vars

\* C14 witness: a sweep has set the latch of the one task that was due and
\* has left the other task of the collection alone.
C14_SweepLatchedOne ==
    /\ stack = <<>> /\ Len(tasks) = 2
    /\ tasks[1].notified /\ emitted[tasks[1].id] >= 1
    /\ ~tasks[2].notified /\ emitted[tasks[2].id] = 0
    /\ lastSave = "ok" /\ file = Serialise(tasks)

\* The identities a task can have.
TaskIds == 1..(MaxOps + 1)

\* The task is in the collection with reminders enabled, not completed, a
\* deadline set, and the clock at or past the deadline minus the lead time.
Armed(id) ==
    /\ Has(tasks, id)
    /\ LET t == TaskOf(tasks, id)
       IN /\ t.notify_enabled /\ ~t.completed /\ t.deadline # None
          /\ now >= ClaimedDeadline(t) - t.notify_before_minutes

\* A reminder for the task was shown and its latch is set.
Reminded(id) ==
    Has(tasks, id) /\ TaskOf(tasks, id).notified /\ emitted[id] >= 1

\* C15: when a task that is not yet notified is armed and a timeout of the
\* timer is due, then, unless the task stops being armed (deleted, completed,
\* reminders disabled, deadline moved), a reminder for it is shown and its
\* notified flag is set at some later time, whatever other reminders and
\* save failures come in between.
C15_ReminderComes ==
    \A id \in TaskIds :
        (Armed(id) /\ ~TaskOf(tasks, id).notified /\ timerDue)
            ~> (Reminded(id) \/ ~Armed(id))

\* C15 witness: a task was reminded of in a sweep that showed another
\* reminder first and whose save failed.
C15_RemindedAfterOthers ==
    /\ Len(tasks) = 2 /\ stack = <<>>
    /\ Reminded(tasks[1].id) /\ Reminded(tasks[2].id)
    /\ Armed(tasks[2].id)
    /\ failures >= 1

====
